---- MODULE Spec2Model ----
(***************************************************************************)
(* A model of boolean-expression: Product (a conjunction of literals kept  *)
(* as two bit masks), Expression (an ordered sum of Products) and the      *)
(* rewriting pass Expression::simplify, translated from                    *)
(* BooleanExpression.h / BooleanExpression.cxx / TruthProduct.h.           *)
(*                                                                         *)
(* The masks are unsigned integers of mask_size bits.  The program uses    *)
(* 64 bits; the model keeps the layout (the top bit is the reserved slot)  *)
(* with a smaller width.                                                   *)
(***************************************************************************)
EXTENDS Integers, Sequences, FiniteSets, TLC

\* ------------------------------------------------------------------------
\* Bounds of the model.
\* ------------------------------------------------------------------------

\* Width of mask_type in bits (sizeof(mask_type) * 8 in the program).
mask_size == 5

\* Width of int in bits (32 in the build against the 64 of mask_type),
\* scaled with mask_size so that, as in the build, a count of variables that
\* mask_type has room for reaches the sign bit of int.
int_size == 5

\* The number of operations applied to the Expression of the calculator.
MaxOps == 4

\* The number of variables of the inputs of simplify and of the operands of
\* the laws, and the longest sequence of terms given to simplify.
NumVariables == 3

MaxTerms == 4

\* The number of Products accumulated into an operand of the laws.
MaxAccumulated == 2

\* ------------------------------------------------------------------------
\* mask_type and its machine operators.
\* ------------------------------------------------------------------------

empty_mask == 0

full_mask == 2^mask_size - 1

max_number_of_variables == mask_size - 1

Mask == 0..full_mask

\* Bit i of x.
BitAt(x, i) == (x \div 2^i) % 2

RECURSIVE AndBits(_, _, _)
AndBits(x, y, i) ==
  IF i = mask_size THEN 0
  ELSE 2^i * BitAt(x, i) * BitAt(y, i) + AndBits(x, y, i + 1)

AndTab == [x \in Mask |-> [y \in Mask |-> AndBits(x, y, 0)]]

RECURSIVE CountBits(_, _)
CountBits(x, i) ==
  IF i = mask_size THEN 0 ELSE BitAt(x, i) + CountBits(x, i + 1)

PopTab == [x \in Mask |-> CountBits(x, 0)]

\* x & y, x | y, x ^ y, ~x on mask_type.
And(x, y) == AndTab[x][y]

Or(x, y) == x + y - AndTab[x][y]

Xor(x, y) == x + y - 2 * AndTab[x][y]

Not(x) == full_mask - x

\* x + 1 and x - 1 on mask_type (unsigned, wrapping).
Inc(x) == (x + 1) % (full_mask + 1)

Dec(x) == (x + full_mask) % (full_mask + 1)

\* Product::to_mask: mask_type{1} << id.
to_mask(id) == 2^id

\* ------------------------------------------------------------------------
\* Product.
\* ------------------------------------------------------------------------

MkProduct(variables, negation) ==
  [m_variables |-> variables, m_negation |-> negation]

\* Product(bool literal).
ProductLiteral(literal) ==
  LET v == IF literal THEN full_mask ELSE empty_mask
  IN MkProduct(v, Not(v))

One == ProductLiteral(TRUE)

Zero == ProductLiteral(FALSE)

\* Product(Variable variable, bool negated).
ProductVariable(id, negated) ==
  LET v == Not(to_mask(id))
  IN MkProduct(v, IF negated THEN full_mask ELSE v)

is_literal(p) == Xor(p.m_variables, p.m_negation) = full_mask

is_zero(p) == p.m_variables = empty_mask

is_one(p) == p.m_variables = full_mask

number_of_variables(p) == PopTab[Not(p.m_variables)]

\* Product::operator*= without the test for a variable with two negations:
\* the fault that C6 has to tell from the code.
ProductTimesUnchecked(this, product) ==
  LET neg == Or(Or(And(Not(this.m_variables), this.m_negation),
                   And(Not(product.m_variables), product.m_negation)),
                Or(And(product.m_variables, this.m_negation),
                   And(this.m_variables, product.m_negation)))
      vars == And(this.m_variables, product.m_variables)
  IN MkProduct(vars, neg)

\* Product::operator*= that keeps the variables of the left operand alone:
\* the fault that C11 has to tell from the code.
ProductTimesLeftVariables(this, product) ==
  LET is_false ==
        IF And(And(Not(this.m_variables), Not(product.m_variables)),
               Xor(this.m_negation, product.m_negation)) # 0
        THEN full_mask ELSE empty_mask
      neg == Or(Or(And(Not(this.m_variables), this.m_negation),
                   And(Not(product.m_variables), product.m_negation)),
                Or(And(product.m_variables, this.m_negation),
                   And(this.m_variables, product.m_negation)))
      vars == this.m_variables
  IN MkProduct(And(vars, Not(is_false)), Or(neg, is_false))

\* Product::operator*=.
ProductTimes(this, product) ==
  LET is_false ==
        IF And(And(Not(this.m_variables), Not(product.m_variables)),
               Xor(this.m_negation, product.m_negation)) # 0
        THEN full_mask ELSE empty_mask
      neg == Or(Or(And(Not(this.m_variables), this.m_negation),
                   And(Not(product.m_variables), product.m_negation)),
                Or(And(product.m_variables, this.m_negation),
                   And(this.m_variables, product.m_negation)))
      vars == And(this.m_variables, product.m_variables)
  IN MkProduct(And(vars, Not(is_false)), Or(neg, is_false))

\* Expression::less, the term order.
less(product1, product2) ==
  LET number_of_variables1 == number_of_variables(product1)
      number_of_variables2 == number_of_variables(product2)
  IN \/ number_of_variables1 < number_of_variables2
     \/ /\ number_of_variables1 = number_of_variables2
        /\ \/ product1.m_variables < product2.m_variables
           \/ /\ product1.m_variables = product2.m_variables
              /\ product1.m_negation < product2.m_negation

\* is_single_negation_different_from without the test that one negation
\* alone differs: the fault that C16 has to tell from the code.
is_any_negation_different_from(this, product) ==
  LET negation_difference == Xor(this.m_negation, product.m_negation)
  IN /\ this.m_variables = product.m_variables
     /\ negation_difference # 0

\* Product::is_single_negation_different_from.
is_single_negation_different_from(this, product) ==
  LET negation_difference == Xor(this.m_negation, product.m_negation)
  IN /\ this.m_variables = product.m_variables
     /\ negation_difference # 0
     /\ And(Dec(negation_difference), negation_difference) = 0

\* includes_all_of that holds of equal sets of variables alone: the fault
\* that C18 has to tell from the code.
includes_all_of_same_variables(this, product) ==
  LET negation_difference == Xor(this.m_negation, product.m_negation)
  IN /\ this.m_variables = product.m_variables
     /\ And(negation_difference, Not(product.m_variables)) = 0

\* Product::includes_all_of.
includes_all_of(this, product) ==
  LET negation_difference == Xor(this.m_negation, product.m_negation)
  IN /\ Or(this.m_variables, product.m_variables) = product.m_variables
     /\ And(negation_difference, Not(product.m_variables)) = 0

has_different_negation_for_single_variable(this, product) ==
  IF /\ Or(Inc(product.m_variables), product.m_variables) = full_mask
     /\ Or(this.m_variables, product.m_variables) # full_mask
  THEN And(Xor(this.m_negation, product.m_negation),
           Not(product.m_variables)) # 0
  ELSE FALSE

\* common_factor that keeps the variable in which the two differ: the
\* fault that C2 has to tell from the code.
common_factor_keeping_difference(product1, product2) ==
  LET vars == Or(product1.m_variables, product2.m_variables)
  IN MkProduct(vars,
               IF vars = full_mask THEN empty_mask
               ELSE Or(product1.m_negation, vars))

\* common_factor that leaves the negation bit of the removed variable as
\* product2 has it: the fault that C17 has to tell from the code.
common_factor_negation_of_second(product1, product2) ==
  LET negation_difference == Xor(product1.m_negation, product2.m_negation)
      vars == Or(Or(product1.m_variables, product2.m_variables),
                 negation_difference)
  IN MkProduct(vars,
               IF vars = full_mask THEN empty_mask
               ELSE Or(product2.m_negation,
                       Or(product1.m_variables, product2.m_variables)))

common_factor(product1, product2) ==
  LET negation_difference == Xor(product1.m_negation, product2.m_negation)
      vars == Or(Or(product1.m_variables, product2.m_variables),
                 negation_difference)
  IN MkProduct(vars,
               IF vars = full_mask THEN empty_mask
               ELSE Or(product1.m_negation, vars))

\* Product::remove_variable that leaves m_negation as it was: the fault that
\* C12 has to tell from the code.
remove_variable_keeping_negation(product, variable) ==
  MkProduct(Or(product.m_variables, Not(variable.m_variables)),
            product.m_negation)

\* Product::remove_variable that returns the product as it is: the fault
\* that C20 has to tell from the code.
remove_variable_keeping_variable(product, variable) ==
  MkProduct(product.m_variables, product.m_negation)

\* Product::remove_variable.
remove_variable(product, variable) ==
  MkProduct(Or(product.m_variables, Not(variable.m_variables)),
            Or(product.m_negation, Not(variable.m_variables)))

\* Product::is_sane: TRUE when no assertion of it fails.
is_sane(p) ==
  IF p.m_variables = empty_mask /\ p.m_negation = full_mask
  THEN is_literal(p) /\ is_zero(p)
  ELSE IF p.m_variables = full_mask /\ p.m_negation = empty_mask
  THEN is_literal(p) /\ is_one(p)
  ELSE LET not_used ==
             Not(full_mask \div 2^(mask_size - max_number_of_variables))
       IN /\ ~is_literal(p)
          /\ And(p.m_variables, not_used) = not_used
          /\ And(p.m_negation, not_used) = not_used
          /\ And(p.m_negation, p.m_variables) = p.m_variables

\* ------------------------------------------------------------------------
\* Expression: m_sum_of_products is a sequence of Products.  The code's
\* indices are 0-based; At(s, i) is m_sum_of_products[i].
\* ------------------------------------------------------------------------

At(s, i) == s[i + 1]

\* std::vector::insert before the element at (0-based) index k.
InsertAt(s, k, term) == SubSeq(s, 1, k) \o <<term>> \o SubSeq(s, k + 1, Len(s))

\* Expression(bool literal) / Expression(Product const&).
ExpressionLiteral(literal) == <<ProductLiteral(literal)>>

ExpressionProduct(product) == <<product>>

\* Expression::is_literal / is_zero / is_one look at the first term only.
expr_is_literal(s) == is_literal(s[1])

expr_is_zero(s) == is_zero(s[1])

expr_is_one(s) == is_one(s[1])

\* The term is marked removed by simplify (m_variables = 0).
Removed(s, i) == At(s, i).m_variables = 0

\* m_sum_of_products[i].m_variables = 0 and the bookkeeping of first_removed
\* as Expression::insert_after does it.
RemoveMin(st, i) ==
  [st EXCEPT !.s[i + 1].m_variables = 0,
             !.first_removed = IF i < @ THEN i ELSE @]

\* ... and as Expression::simplify does it.
RemoveFirst(st, i) ==
  [st EXCEPT !.s[i + 1].m_variables = 0,
             !.first_removed = IF @ < 0 THEN i ELSE @]

\* The least element of a non-empty set of indices.
Min(S) == CHOOSE m \in S : \A n \in S : m <= n

\* The insertion loop of insert_after: the index at which term is inserted,
\* the first k > after that is not removed and less than term, else size.
InsertPoint(s, term, after, size) ==
  LET K == {k \in (after + 1)..(size - 1) :
              ~Removed(s, k) /\ less(At(s, k), term)}
  IN IF K = {} THEN size ELSE Min(K)

\* The retest loop of insert_after stops at the first term before retest
\* that is not removed and to which one of its two rules applies.
RetestPoint(s, term, retest) ==
  LET I == {i \in 0..(retest - 1) :
              /\ ~Removed(s, i)
              /\ \/ has_different_negation_for_single_variable(At(s, i), term)
                 \/ includes_all_of(At(s, i), term)}
  IN IF I = {} THEN -1 ELSE Min(I)

\* Expression::insert_after; st is [s, size, first_removed].
RECURSIVE insert_after(_, _, _, _)
insert_after(st, term, after, retest) ==
  LET k == InsertPoint(st.s, term, after, st.size)
      st1 == [st EXCEPT !.s = InsertAt(st.s, k, term), !.size = st.size + 1]
      i == RetestPoint(st1.s, term, retest)
  IN IF i < 0 THEN st1
     ELSE IF has_different_negation_for_single_variable(At(st1.s, i), term)
     THEN LET shorter_term == remove_variable(At(st1.s, i), term)
          IN insert_after(RemoveMin(st1, i), shorter_term, i, i)
     ELSE RemoveMin(st1, i)

\* The loop over j of simplify stops at the first j > i that is not removed
\* and to which one of the three rules applies.
SimplifyPoint(s, i, size) ==
  LET J == {j \in (i + 1)..(size - 1) :
              /\ ~Removed(s, j)
              /\ \/ is_single_negation_different_from(At(s, i), At(s, j))
                 \/ has_different_negation_for_single_variable(At(s, i),
                                                               At(s, j))
                 \/ includes_all_of(At(s, i), At(s, j))}
  IN IF J = {} THEN -1 ELSE Min(J)

\* The loop over i of simplify, from index i.
RECURSIVE SimplifyLoop(_, _)
SimplifyLoop(st, i) ==
  IF i >= st.size - 1 THEN st
  ELSE IF Removed(st.s, i) THEN SimplifyLoop(st, i + 1)
  ELSE LET j == SimplifyPoint(st.s, i, st.size)
       IN IF j < 0 THEN SimplifyLoop(st, i + 1)
          ELSE IF is_single_negation_different_from(At(st.s, i), At(st.s, j))
          THEN LET cf == common_factor(At(st.s, i), At(st.s, j))
                   st1 == RemoveFirst([st EXCEPT !.s[j + 1].m_variables = 0],
                                      i)
               IN IF is_one(cf)
                  THEN [st1 EXCEPT !.s = ExpressionLiteral(TRUE),
                                   !.is_true = TRUE]
                  ELSE SimplifyLoop(insert_after(st1, cf, j, i), i + 1)
          ELSE IF has_different_negation_for_single_variable(At(st.s, i),
                                                             At(st.s, j))
          THEN LET shorter_term == remove_variable(At(st.s, i), At(st.s, j))
               IN SimplifyLoop(insert_after(RemoveFirst(st, i), shorter_term,
                                            i, i),
                               i + 1)
          ELSE SimplifyLoop(RemoveFirst(st, i), i + 1)

\* "If any elements were removed, move rest into place."
Compact(st) ==
  IF st.first_removed < 0 THEN st.s
  ELSE SubSeq(st.s, 1, st.first_removed)
       \o SelectSeq(SubSeq(st.s, st.first_removed + 2, st.size),
                    LAMBDA t : t.m_variables # 0)

\* Expression::simplify.
simplify(s) ==
  IF Len(s) <= 1 THEN s
  ELSE LET st == SimplifyLoop([s |-> s, size |-> Len(s),
                               first_removed |-> -1, is_true |-> FALSE], 0)
       IN IF st.is_true THEN st.s ELSE Compact(st)

\* Expression::add: the position std::find_if returns, then the insert.
RECURSIVE find_if_less(_, _, _)
find_if_less(s, product, k) ==
  IF k = Len(s) THEN k
  ELSE IF less(At(s, k), product) THEN k
  ELSE find_if_less(s, product, k + 1)

add(s, product) ==
  IF is_zero(product) THEN s
  ELSE InsertAt(s, find_if_less(s, product, 0), product)

\* Expression::operator+=(Product const&).
PlusEqProduct(s, product) ==
  IF expr_is_zero(s) THEN <<product>>
  ELSE IF ~expr_is_one(s)
  THEN IF ~is_one(product)
       THEN IF ~is_zero(product) THEN simplify(add(s, product)) ELSE s
       ELSE ExpressionLiteral(TRUE)
  ELSE s

\* The sum collected by the loops of operator*(Product) and times.
RECURSIVE AddAll(_, _, _)
AddAll(result, terms, k) ==
  IF k > Len(terms) THEN result
  ELSE AddAll(add(result, terms[k]), terms, k + 1)

Collected(terms) ==
  LET result == AddAll(<<>>, terms, 1)
  IN IF result # <<>> THEN simplify(result) ELSE ExpressionLiteral(FALSE)

\* Expression::operator*(Product const&).
TimesProduct(s, product) ==
  IF expr_is_literal(s) \/ is_literal(product)
  THEN IF expr_is_zero(s) \/ is_zero(product) THEN ExpressionLiteral(FALSE)
       ELSE IF expr_is_one(s) THEN ExpressionProduct(product) ELSE s
  ELSE Collected([k \in 1..Len(s) |-> ProductTimes(s[k], product)])

\* times that multiplies with the first term of expression only: the fault
\* that C9 has to tell from the code.
times_first_term(s, expression) ==
  IF expr_is_literal(s) \/ expr_is_literal(expression)
  THEN IF expr_is_zero(s) \/ expr_is_zero(expression)
       THEN ExpressionLiteral(FALSE)
       ELSE IF expr_is_one(s) THEN expression ELSE s
  ELSE TimesProduct(s, expression[1])

\* Expression::times.
times(s, expression) ==
  IF expr_is_literal(s) \/ expr_is_literal(expression)
  THEN IF expr_is_zero(s) \/ expr_is_zero(expression)
       THEN ExpressionLiteral(FALSE)
       ELSE IF expr_is_one(s) THEN expression ELSE s
  ELSE Collected([k \in 1..(Len(s) * Len(expression)) |->
                   ProductTimes(s[((k - 1) \div Len(expression)) + 1],
                                expression[((k - 1) % Len(expression)) + 1])])

\* Expression::inverse(Product const&): one term per present variable, in
\* increasing id.
RECURSIVE InverseLoop(_, _, _)
InverseLoop(product, id, result) ==
  IF id = mask_size - 1 THEN result
  ELSE LET variable == to_mask(id)
       IN InverseLoop(product, id + 1,
            IF And(Not(product.m_variables), variable) # 0
            THEN Append(result,
                        MkProduct(Not(variable),
                                  Not(And(product.m_negation, variable))))
            ELSE result)

\* inverse(Product) whose terms keep the negation the variable had: the
\* fault that C5 has to tell from the code.
inverse_product_keeping_negation(product) ==
  LET terms == InverseLoop(product, 0, <<>>)
  IN [k \in 1..Len(terms) |->
        MkProduct(terms[k].m_variables,
                  Xor(terms[k].m_negation, Not(terms[k].m_variables)))]

\* inverse(Product) that emits the terms from the highest variable down:
\* the fault that C13 has to tell from the code.
inverse_product_reversed(product) ==
  LET terms == InverseLoop(product, 0, <<>>)
  IN [k \in 1..Len(terms) |-> terms[Len(terms) + 1 - k]]

\* inverse(Product) that answers a literal with the other literal: the
\* behaviour that C14 has to tell from the code.
inverse_product_swapping_literals(product) ==
  IF is_literal(product)
  THEN <<ProductLiteral(is_zero(product))>>
  ELSE InverseLoop(product, 0, <<>>)

\* Expression::inverse(Product const&) past its assertion.
inverse_product(product) == InverseLoop(product, 0, <<>>)

\* Expression::inverse().
RECURSIVE InverseFold(_, _, _)
InverseFold(s, k, result) ==
  IF k > Len(s) THEN result
  ELSE InverseFold(s, k + 1, times(result, inverse_product(s[k])))

\* inverse() whose loop starts at the second term: the fault that C8 has
\* to tell from the code.
inverse_from_second_term(s) ==
  IF expr_is_literal(s)
  THEN IF expr_is_one(s) THEN ExpressionLiteral(FALSE)
       ELSE ExpressionLiteral(TRUE)
  ELSE InverseFold(s, 2, ExpressionLiteral(TRUE))

inverse(s) ==
  IF expr_is_literal(s)
  THEN IF expr_is_one(s) THEN ExpressionLiteral(FALSE)
       ELSE ExpressionLiteral(TRUE)
  ELSE InverseFold(s, 1, ExpressionLiteral(TRUE))

\* operator(): the term with all variables of truth_product removed.
ReducedTerm(term, truth_product) ==
  MkProduct(Or(term.m_variables, Not(truth_product.m_variables)),
            Or(term.m_negation, Not(truth_product.m_variables)))

\* operator(): a variable occurs in term and in truth_product with
\* different negation.
SubstituteConflict(term, truth_product) ==
  And(Not(Or(term.m_variables, truth_product.m_variables)),
      Xor(truth_product.m_negation, term.m_negation)) # 0

\* operator() that keeps the terms that conflict with truth_product: the
\* fault that C10 has to tell from the code.
RECURSIVE SubstituteLoopKeepingConflicts(_, _, _, _)
SubstituteLoopKeepingConflicts(s, truth_product, k, result) ==
  IF k > Len(s) THEN result
  ELSE LET reduced == ReducedTerm(s[k], truth_product)
       IN IF reduced.m_variables = full_mask
          THEN ExpressionLiteral(TRUE)
          ELSE SubstituteLoopKeepingConflicts(s, truth_product, k + 1,
                 PlusEqProduct(result, reduced))

\* Expression::operator()(TruthProduct const&).
RECURSIVE SubstituteLoop(_, _, _, _)
SubstituteLoop(s, truth_product, k, result) ==
  IF k > Len(s) THEN result
  ELSE LET term == s[k]
       IN IF SubstituteConflict(term, truth_product)
          THEN SubstituteLoop(s, truth_product, k + 1, result)
          ELSE LET reduced == ReducedTerm(term, truth_product)
               IN IF reduced.m_variables = full_mask
                  THEN ExpressionLiteral(TRUE)
                  ELSE SubstituteLoop(s, truth_product, k + 1,
                                      PlusEqProduct(result, reduced))

Substitute(s, truth_product) ==
  IF expr_is_literal(s) THEN s
  ELSE SubstituteLoop(s, truth_product, 1, ExpressionLiteral(FALSE))

\* The merge of zip that appends the rest of expression1 to the rest of
\* expression0 whatever their order: the fault that C4 has to tell from the
\* code.
ZipAppend(e0, e1, t0, t1, output) ==
  output \o SubSeq(e0, t0 + 1, Len(e0)) \o SubSeq(e1, t1 + 1, Len(e1))

\* The merge of zip that takes a term found in both inputs once: the fault
\* that C22 has to tell from the code.
RECURSIVE ZipMergeOnce(_, _, _, _, _)
ZipMergeOnce(e0, e1, t0, t1, output) ==
  IF At(e0, t0) = At(e1, t1)
  THEN IF t1 + 1 < Len(e1)
       THEN ZipMergeOnce(e0, e1, t0, t1 + 1, output)
       ELSE output \o SubSeq(e0, t0 + 1, Len(e0))
  ELSE IF less(At(e0, t0), At(e1, t1))
  THEN IF t1 + 1 < Len(e1)
       THEN ZipMergeOnce(e0, e1, t0, t1 + 1, Append(output, At(e1, t1)))
       ELSE Append(output, At(e1, t1)) \o SubSeq(e0, t0 + 1, Len(e0))
  ELSE IF t0 + 1 < Len(e0)
       THEN ZipMergeOnce(e0, e1, t0 + 1, t1, Append(output, At(e0, t0)))
       ELSE Append(output, At(e0, t0)) \o SubSeq(e1, t1 + 1, Len(e1))

\* zip: the literal table, or the ordered merge of the two term sequences.
\* t0 and t1 are term_of_input[0] and [1].
RECURSIVE ZipMerge(_, _, _, _, _)
ZipMerge(e0, e1, t0, t1, output) ==
  IF less(At(e0, t0), At(e1, t1))
  THEN IF t1 + 1 < Len(e1)
       THEN ZipMerge(e0, e1, t0, t1 + 1, Append(output, At(e1, t1)))
       ELSE Append(output, At(e1, t1)) \o SubSeq(e0, t0 + 1, Len(e0))
  ELSE IF t0 + 1 < Len(e0)
       THEN ZipMerge(e0, e1, t0 + 1, t1, Append(output, At(e0, t0)))
       ELSE Append(output, At(e0, t0)) \o SubSeq(e1, t1 + 1, Len(e1))

\* zip whose literal table copies input[expression1.is_one()]: the fault
\* that C7 has to tell from the code.
zip_second_if_one(expression0, expression1) ==
  IF expr_is_literal(expression0) \/ expr_is_literal(expression1)
  THEN [merged |-> FALSE,
        output |-> IF expr_is_one(expression1)
                   THEN expression1 ELSE expression0]
  ELSE [merged |-> TRUE,
        output |-> ZipMerge(expression0, expression1, 0, 0, <<>>)]

zip(expression0, expression1) ==
  IF expr_is_literal(expression0) \/ expr_is_literal(expression1)
  THEN [merged |-> FALSE,
        output |-> IF expr_is_one(expression1) \/ expr_is_zero(expression0)
                   THEN expression1 ELSE expression0]
  ELSE [merged |-> TRUE,
        output |-> ZipMerge(expression0, expression1, 0, 0, <<>>)]

\* operator+(Expression const&, Expression const&).
Plus(expression0, expression1) ==
  LET z == zip(expression0, expression1)
  IN IF z.merged THEN simplify(z.output) ELSE z.output

\* ------------------------------------------------------------------------
\* Expression::equivalent, the brute force comparison.
\* ------------------------------------------------------------------------

\* all_variables |= ~product.m_variables over the non-literal terms.
RECURSIVE CollectVariables(_, _, _)
CollectVariables(s, k, all_variables) ==
  IF k > Len(s) THEN all_variables
  ELSE CollectVariables(s, k + 1,
         IF ~is_literal(s[k]) THEN Or(all_variables, Not(s[k].m_variables))
         ELSE all_variables)

\* variable_id[0 .. number_of_variables - 1], as a sequence.
RECURSIVE VariableIds(_, _, _)
VariableIds(all_variables, id, variable_id) ==
  IF id = max_number_of_variables THEN variable_id
  ELSE VariableIds(all_variables, id + 1,
         IF And(all_variables, to_mask(id)) # 0 THEN Append(variable_id, id)
         ELSE variable_id)

\* x << n in an int of int_size bits in two's complement, for a shift count
\* n below int_size: a count of int_size - 1 puts the 1 into the sign bit.
\* The number of variables of the model stays below int_size; a count of
\* int_size or more is not defined by the language.
ShiftLeftInt(x, n) ==
  ((x * 2^n + 2^(int_size - 1)) % 2^int_size) - 2^(int_size - 1)

\* set_variables of one permutation; permutation & permbit of a permutation
\* that is not negative and a permbit that is positive.
RECURSIVE SetVariables(_, _, _, _)
SetVariables(permutation, variable_id, variable, set_variables) ==
  IF variable = Len(variable_id) THEN set_variables
  ELSE SetVariables(permutation, variable_id, variable + 1,
         LET permbit == ShiftLeftInt(1, variable)
         IN IF (permutation \div permbit) % 2 # 0
            THEN Or(set_variables, to_mask(variable_id[variable + 1]))
            ELSE set_variables)

\* The test of one product that looks at the variables alone and not at
\* their negation: the fault that C15 has to tell from the code.
ProductHoldsAnyNegation(product, set_variables) ==
  And(Not(product.m_variables), set_variables) = Not(product.m_variables)

\* The test of one product against set_variables.
ProductHolds(product, set_variables) ==
  And(Not(product.m_variables), Xor(set_variables, product.m_negation))
    = Not(product.m_variables)

\* result1 / result2 of equivalent.
ExpressionHolds(s, set_variables) ==
  IF expr_is_literal(s) THEN expr_is_one(s)
  ELSE \E k \in 1..Len(s) : ProductHolds(s[k], set_variables)

equivalent(s, expression) ==
  LET all_variables ==
        CollectVariables(expression, 1, CollectVariables(s, 1, 0))
      variable_id == VariableIds(all_variables, 0, <<>>)
      number_of_permutations == ShiftLeftInt(1, Len(variable_id))
  IN \A permutation \in 0..(number_of_permutations - 1) :
       LET set_variables == SetVariables(permutation, variable_id, 0, 0)
       IN ExpressionHolds(s, set_variables)
            = ExpressionHolds(expression, set_variables)

\* ------------------------------------------------------------------------
\* Inputs: variables, products and truth assignments.
\* ------------------------------------------------------------------------

\* A Product built as the program builds it: Product(true), then *= a
\* single-variable Product for every variable that slot[id] makes present.
RECURSIVE BuildProduct(_, _, _)
BuildProduct(slot, id, product) ==
  IF id = Len(slot) THEN product
  ELSE BuildProduct(slot, id + 1,
         IF slot[id + 1] = "absent" THEN product
         ELSE ProductTimes(product,
                           ProductVariable(id, slot[id + 1] = "negated")))

ProductOf(slot) == BuildProduct(slot, 0, One)

\* Every non-literal Product over the variables 0 .. n - 1.
Products(n) ==
  {ProductOf(slot) : slot \in [1..n -> {"absent", "positive", "negated"}]}
    \ {One}

\* Every Expression reached from Expression(false) by at most n
\* operator+=(Product) with non-literal Products: Zero, the single
\* Products, their sums, and One (from a sum like A + !A).
RECURSIVE Sums(_)
Sums(n) ==
  IF n = 0 THEN {ExpressionLiteral(FALSE)}
  ELSE LET shorter == Sums(n - 1)
       IN shorter \cup {PlusEqProduct(s, p) :
                          s \in shorter, p \in Products(NumVariables)}

Operands == Sums(MaxAccumulated)

\* The Products a TruthProduct is constructed from: TruthProduct() is One.
TruthProducts == Products(NumVariables) \cup {One}

\* ------------------------------------------------------------------------
\* State.
\*   pc     what the last step was
\*   e      the Expression operated on (its m_sum_of_products)
\*   steps  the number of operations applied to e
\*   args   the operands the last step was given
\*   res    the other results of the last step
\* ------------------------------------------------------------------------

VARIABLES pc, e, steps, args, res

vars == <<pc, e, steps, args, res>>

\* ------------------------------------------------------------------------
\* The calculator: one Expression, built from a literal or a Product and
\* then changed by the public operations, with Products of four variables
\* A, B, C, D (ids 0 .. 3) as operands.
\* ------------------------------------------------------------------------

A == "positive"

N == "negated"

X == "absent"

\* A*B, !A*B*C, !A*D, B*C*!D, A*!B, C
CalcProducts ==
  {ProductOf(<<A, A, X, X>>), ProductOf(<<N, A, A, X>>),
   ProductOf(<<N, X, X, A>>), ProductOf(<<X, A, A, N>>),
   ProductOf(<<A, N, X, X>>), ProductOf(<<X, X, A, X>>)}

CalcInit ==
  /\ pc = "construct"
  /\ e \in {ExpressionLiteral(TRUE), ExpressionLiteral(FALSE)}
             \cup {ExpressionProduct(p) : p \in CalcProducts}
  /\ steps = 0
  /\ args = <<>>
  /\ res = <<>>

CalcStep(result, name) ==
  /\ e' = result
  /\ pc' = name
  /\ steps' = steps + 1
  /\ UNCHANGED <<args, res>>

\* e += product
CalcPlusEqProduct ==
  /\ steps < MaxOps
  /\ \E p \in CalcProducts : CalcStep(PlusEqProduct(e, p), "+=")

\* e = e + Expression(product)
CalcPlus ==
  /\ steps < MaxOps
  /\ \E p \in CalcProducts :
       CalcStep(Plus(e, ExpressionProduct(p)), "+")

\* e = e * product
CalcTimesProduct ==
  /\ steps < MaxOps
  /\ \E p \in CalcProducts : CalcStep(TimesProduct(e, p), "*")

\* e = e.times(Expression(product))
CalcTimes ==
  /\ steps < MaxOps
  /\ \E p \in CalcProducts :
       CalcStep(times(e, ExpressionProduct(p)), "times")

\* e = e.inverse()
CalcInverse ==
  /\ steps < MaxOps
  /\ CalcStep(inverse(e), "inverse")

\* e = e(TruthProduct(product))
CalcSubstitute ==
  /\ steps < MaxOps
  /\ \E t \in CalcProducts : CalcStep(Substitute(e, t), "()")

Next ==
  \/ CalcPlusEqProduct
  \/ CalcPlus
  \/ CalcTimesProduct
  \/ CalcTimes
  \/ CalcInverse
  \/ CalcSubstitute

Spec == CalcInit /\ [][Next]_vars

\* ------------------------------------------------------------------------
\* simplify() on its own: e starts as any term-ordered sequence of
\* non-literal Products (as add and zip leave it, duplicates included) and
\* simplify() is called on it, twice.
\* ------------------------------------------------------------------------

TermOrdered(s) == \A k \in 1..(Len(s) - 1) : ~less(s[k], s[k + 1])

TermSequences ==
  UNION {{s \in [1..n -> Products(NumVariables)] : TermOrdered(s)} :
           n \in 1..MaxTerms}

SimplifyInit ==
  /\ pc = "terms"
  /\ e \in TermSequences
  /\ steps = 0
  /\ args = <<>>
  /\ res = <<>>

SimplifyCall ==
  /\ steps < 2
  /\ e' = simplify(e)
  /\ args' = <<e>>
  /\ pc' = "simplify"
  /\ steps' = steps + 1
  /\ UNCHANGED res

NextSimplify == SimplifyCall

SpecSimplify == SimplifyInit /\ [][NextSimplify]_vars

\* ------------------------------------------------------------------------
\* Negation: an operand a, then one of a + a.inverse(), a.times(a.inverse())
\* and a.inverse().inverse().
\* ------------------------------------------------------------------------

OperandInit ==
  /\ pc = "operand"
  /\ e \in Operands
  /\ steps = 0
  /\ args = <<>>
  /\ res = <<>>

\* res[1] = a.inverse() and e = a + res[1]
NegationPlus ==
  /\ pc = "operand"
  /\ args' = <<e>>
  /\ res' = <<inverse(e)>>
  /\ e' = Plus(e, res'[1])
  /\ pc' = "a + !a"
  /\ steps' = steps + 1

\* res[1] = a.inverse() and e = a.times(res[1])
NegationTimes ==
  /\ pc = "operand"
  /\ args' = <<e>>
  /\ res' = <<inverse(e)>>
  /\ e' = times(e, res'[1])
  /\ pc' = "a * !a"
  /\ steps' = steps + 1

\* res[1] = a.inverse(), e = res[1].inverse() and res[2] = e.equivalent(a)
NegationTwice ==
  /\ pc = "operand"
  /\ args' = <<e>>
  /\ \E once \in {inverse(e)} :
       /\ e' = inverse(once)
       /\ res' = <<once, equivalent(e', e)>>
  /\ pc' = "!!a"
  /\ steps' = steps + 1

NextNegation ==
  \/ NegationPlus
  \/ NegationTimes
  \/ NegationTwice

SpecNegation == OperandInit /\ [][NextNegation]_vars

\* ------------------------------------------------------------------------
\* Literals: an operand a and a literal, combined by each multiplication
\* and each addition, with the literal on the right or on the left. Where
\* the operation takes a Product, the Expression on its other side is a
\* single term.
\* ------------------------------------------------------------------------

Sides == {"right", "left"}

LiteralStep(result, name, literal, side, returned) ==
  /\ e' = result
  /\ args' = <<e, literal, side>>
  /\ res' = returned
  /\ pc' = name
  /\ steps' = steps + 1

\* Product * Product
LiteralProductTimes ==
  /\ pc = "operand"
  /\ \E literal \in BOOLEAN, side \in Sides :
       /\ Len(e) = 1
       /\ LiteralStep(ExpressionProduct(
                        IF side = "right"
                        THEN ProductTimes(e[1], ProductLiteral(literal))
                        ELSE ProductTimes(ProductLiteral(literal), e[1])),
                      "Product * Product", literal, side, <<>>)

\* Expression * Product
LiteralTimesProduct ==
  /\ pc = "operand"
  /\ \E literal \in BOOLEAN, side \in Sides :
       /\ side = "left" => Len(e) = 1
       /\ LiteralStep(IF side = "right"
                      THEN TimesProduct(e, ProductLiteral(literal))
                      ELSE TimesProduct(ExpressionLiteral(literal), e[1]),
                      "Expression * Product", literal, side, <<>>)

\* Expression::times
LiteralTimes ==
  /\ pc = "operand"
  /\ \E literal \in BOOLEAN, side \in Sides :
       LiteralStep(IF side = "right"
                   THEN times(e, ExpressionLiteral(literal))
                   ELSE times(ExpressionLiteral(literal), e),
                   "times", literal, side, <<>>)

\* Expression + Expression; res[1] is what zip returned
LiteralPlus ==
  /\ pc = "operand"
  /\ \E literal \in BOOLEAN, side \in Sides :
       LET expression0 == IF side = "right" THEN e
                          ELSE ExpressionLiteral(literal)
           expression1 == IF side = "right" THEN ExpressionLiteral(literal)
                          ELSE e
       IN LiteralStep(Plus(expression0, expression1), "+", literal, side,
                      <<zip(expression0, expression1).merged>>)

\* Expression += Product
LiteralPlusEqProduct ==
  /\ pc = "operand"
  /\ \E literal \in BOOLEAN, side \in Sides :
       /\ side = "left" => Len(e) = 1
       /\ LiteralStep(IF side = "right"
                      THEN PlusEqProduct(e, ProductLiteral(literal))
                      ELSE PlusEqProduct(ExpressionLiteral(literal), e[1]),
                      "+=", literal, side, <<>>)

NextLiteral ==
  \/ LiteralProductTimes
  \/ LiteralTimesProduct
  \/ LiteralTimes
  \/ LiteralPlus
  \/ LiteralPlusEqProduct

SpecLiteral == OperandInit /\ [][NextLiteral]_vars

\* ------------------------------------------------------------------------
\* Substitution: an operand a, then a(t) for a TruthProduct t.
\* ------------------------------------------------------------------------

\* e = a(t)
SubstituteCall ==
  /\ pc = "operand"
  /\ \E t \in TruthProducts :
       /\ e' = Substitute(e, t)
       /\ args' = <<e, t>>
  /\ res' = <<>>
  /\ pc' = "a(t)"
  /\ steps' = steps + 1

NextSubstitute == SubstituteCall

SpecSubstitute == OperandInit /\ [][NextSubstitute]_vars

\* ------------------------------------------------------------------------
\* Sums: two operands a and b, added in both orders; or three Products,
\* accumulated by += in two orders and added in both groupings.
\* ------------------------------------------------------------------------

\* The single-term Expressions and the two literals.
Summands ==
  {ExpressionLiteral(TRUE), ExpressionLiteral(FALSE)}
    \cup {ExpressionProduct(p) : p \in Products(NumVariables)}

SumInit ==
  /\ pc = "operands"
  /\ e = ExpressionLiteral(FALSE)
  /\ steps = 0
  /\ args \in (Operands \X Operands)
                \cup {<<ExpressionProduct(p), ExpressionProduct(q),
                        ExpressionProduct(r)>> :
                        p \in Products(NumVariables),
                        q \in Products(NumVariables),
                        r \in Products(NumVariables)}
  /\ res = <<>>

\* Expression(false) += the first Product of each of terms[order[1]],
\* terms[order[2]], ..., in that order.
RECURSIVE Accumulated(_, _, _, _)
Accumulated(terms, order, k, result) ==
  IF k > Len(order) THEN result
  ELSE Accumulated(terms, order, k + 1,
                   PlusEqProduct(result, At(terms[order[k]], 0)))

Orders == {order \in [1..3 -> 1..3] : \A i, j \in 1..3 :
                                        order[i] = order[j] => i = j}

\* e = a + b and res[1] = b + a
SumCommute ==
  /\ pc = "operands"
  /\ Len(args) = 2
  /\ e' = Plus(args[1], args[2])
  /\ res' = <<Plus(args[2], args[1])>>
  /\ pc' = "a + b"
  /\ steps' = steps + 1
  /\ UNCHANGED args

\* e = (a + b) + c and res[1] = a + (b + c)
SumAssociate ==
  /\ pc = "operands"
  /\ Len(args) = 3
  /\ e' = Plus(Plus(args[1], args[2]), args[3])
  /\ res' = <<Plus(args[1], Plus(args[2], args[3]))>>
  /\ pc' = "(a + b) + c"
  /\ steps' = steps + 1
  /\ UNCHANGED args

\* e = ((false += a) += b) += c and res[1] the same in another order
SumAccumulate ==
  /\ pc = "operands"
  /\ Len(args) = 3
  /\ e' = Accumulated(args, <<1, 2, 3>>, 1, ExpressionLiteral(FALSE))
  /\ \E order \in Orders :
       res' = <<Accumulated(args, order, 1, ExpressionLiteral(FALSE)), order>>
  /\ pc' = "+="
  /\ steps' = steps + 1
  /\ UNCHANGED args

NextSum ==
  \/ SumCommute
  \/ SumAssociate
  \/ SumAccumulate

SpecSum == SumInit /\ [][NextSum]_vars

\* ------------------------------------------------------------------------
\* Distribution: operands a, b and c, then a.times(b + c) and
\* a.times(b) + a.times(c).
\* ------------------------------------------------------------------------

DistributeInit ==
  /\ pc = "operands"
  /\ e = ExpressionLiteral(FALSE)
  /\ steps = 0
  /\ args \in Operands \X Summands \X Summands
  /\ res = <<>>

\* e = a.times(b + c), res[1] = a.times(b) + a.times(c) and res[2] is
\* e.equivalent(res[1])
Distribute ==
  /\ pc = "operands"
  /\ e' = times(args[1], Plus(args[2], args[3]))
  /\ \E sum \in {Plus(times(args[1], args[2]), times(args[1], args[3]))} :
       res' = <<sum, equivalent(e', sum)>>
  /\ pc' = "a * (b + c)"
  /\ steps' = steps + 1
  /\ UNCHANGED args

NextDistribute == Distribute

SpecDistribute == DistributeInit /\ [][NextDistribute]_vars

\* ------------------------------------------------------------------------
\* Expression::simplify step by step: one step for each pass of its loop
\* over i and one for each call of insert_after.  e is m_sum_of_products,
\* args the sequence simplify was called on, and res[1] the local variables:
\* i, size and first_removed of simplify, and term, after, retest of the
\* call of insert_after that is about to run (depth counts the calls of
\* insert_after that are on the stack).
\* ------------------------------------------------------------------------

Locals(i, size, first_removed, term, after, retest, depth) ==
  [i |-> i, size |-> size, first_removed |-> first_removed, term |-> term,
   after |-> after, retest |-> retest, depth |-> depth]

\* The locals once no call of insert_after is pending.
Scanning(i, size, first_removed) ==
  Locals(i, size, first_removed, One, -1, -1, 0)

\* No call of simplify has been made yet.
StepsInit ==
  /\ pc = "idle"
  /\ e = ExpressionLiteral(FALSE)
  /\ steps = 0
  /\ args = <<>>
  /\ res = <<>>

\* simplify is entered on a term-ordered sequence: "if (size == 1) return",
\* else the loops start.
SimplifyBegin ==
  /\ pc = "idle"
  /\ \E s \in TermSequences :
       /\ e' = s
       /\ args' = <<s>>
       /\ res' = <<Scanning(0, Len(s), -1)>>
       /\ pc' = IF Len(s) = 1 THEN "done" ELSE "scan"
  /\ UNCHANGED steps

\* One pass of the loop over i: the loop over j up to the first rule that
\* applies, or the end of the loop and the compaction.
SimplifyScan ==
  /\ pc = "scan"
  /\ LET L == res[1]
         i == L.i
         st == [s |-> e, size |-> L.size, first_removed |-> L.first_removed,
                is_true |-> FALSE]
         j == IF i >= L.size - 1 \/ Removed(e, i) THEN -1
              ELSE SimplifyPoint(e, i, L.size)
     IN IF i >= L.size - 1
        THEN /\ e' = Compact(st)
             /\ res' = res
             /\ pc' = "done"
        ELSE IF j < 0
        THEN /\ e' = e
             /\ res' = <<[L EXCEPT !.i = i + 1]>>
             /\ pc' = "scan"
        ELSE IF is_single_negation_different_from(At(e, i), At(e, j))
        THEN LET cf == common_factor(At(e, i), At(e, j))
                 st1 == RemoveFirst([st EXCEPT !.s[j + 1].m_variables = 0], i)
             IN IF is_one(cf)
                THEN /\ e' = ExpressionLiteral(TRUE)
                     /\ res' = res
                     /\ pc' = "done"
                ELSE /\ e' = st1.s
                     /\ res' = <<Locals(i, L.size, st1.first_removed,
                                        cf, j, i, 1)>>
                     /\ pc' = "insert_after"
        ELSE IF has_different_negation_for_single_variable(At(e, i), At(e, j))
        THEN LET shorter_term == remove_variable(At(e, i), At(e, j))
                 st1 == RemoveFirst(st, i)
             IN /\ e' = st1.s
                /\ res' = <<Locals(i, L.size, st1.first_removed,
                                   shorter_term, i, i, 1)>>
                /\ pc' = "insert_after"
        ELSE LET st1 == RemoveFirst(st, i)
             IN /\ e' = st1.s
                /\ res' = <<Scanning(i + 1, L.size, st1.first_removed)>>
                /\ pc' = "scan"
  /\ UNCHANGED <<args, steps>>

\* One call of insert_after: the insertion, then the retest loop up to the
\* first rule that applies; the nested call is the last thing the call
\* does, so that every call on the stack returns with it.
SimplifyInsertAfter ==
  /\ pc = "insert_after"
  /\ LET L == res[1]
         k == InsertPoint(e, L.term, L.after, L.size)
         st1 == [s |-> InsertAt(e, k, L.term), size |-> L.size + 1,
                 first_removed |-> L.first_removed, is_true |-> FALSE]
         r == RetestPoint(st1.s, L.term, L.retest)
     IN IF r < 0
        THEN /\ e' = st1.s
             /\ res' = <<Scanning(L.i + 1, st1.size, st1.first_removed)>>
             /\ pc' = "scan"
        ELSE IF has_different_negation_for_single_variable(At(st1.s, r),
                                                           L.term)
        THEN LET shorter_term == remove_variable(At(st1.s, r), L.term)
                 st2 == RemoveMin(st1, r)
             IN /\ e' = st2.s
                /\ res' = <<Locals(L.i, st2.size, st2.first_removed,
                                   shorter_term, r, r, L.depth + 1)>>
                /\ pc' = "insert_after"
        ELSE LET st2 == RemoveMin(st1, r)
             IN /\ e' = st2.s
                /\ res' = <<Scanning(L.i + 1, st2.size, st2.first_removed)>>
                /\ pc' = "scan"
  /\ UNCHANGED <<args, steps>>

NextSimplifySteps == SimplifyBegin \/ SimplifyScan \/ SimplifyInsertAfter

\* simplify is one call that runs to its end: a step that can be taken is
\* taken.
SpecSimplifySteps ==
  StepsInit /\ [][NextSimplifySteps]_vars /\ WF_vars(NextSimplifySteps)

\* ------------------------------------------------------------------------
\* zip of two Expressions, and simplify of what it merged.
\* ------------------------------------------------------------------------

ZipInit ==
  /\ pc = "inputs"
  /\ e = ExpressionLiteral(FALSE)
  /\ steps = 0
  /\ args \in Operands \X Operands
  /\ res = <<>>

\* zip(output, expression0, expression1): e is output, res[1] what zip
\* returns.
ZipCall ==
  /\ pc = "inputs"
  /\ \E z \in {zip(args[1], args[2])} :
       /\ e' = z.output
       /\ res' = <<z.merged>>
  /\ pc' = "zip"
  /\ steps' = steps + 1
  /\ UNCHANGED args

\* operator+: "if (zip(output, expression0, expression1)) output.simplify()".
ZipSimplify ==
  /\ pc = "zip"
  /\ res[1]
  /\ e' = simplify(e)
  /\ pc' = "zip, simplify"
  /\ steps' = steps + 1
  /\ UNCHANGED <<args, res>>

NextZip == ZipCall \/ ZipSimplify

SpecZip == ZipInit /\ [][NextZip]_vars

\* ------------------------------------------------------------------------
\* Two Expressions compared by Expression::equivalent.
\* ------------------------------------------------------------------------

EquivalentInit ==
  /\ pc = "operands"
  /\ e = ExpressionLiteral(FALSE)
  /\ steps = 0
  /\ args \in Operands \X Operands
  /\ res = <<>>

\* a.equivalent(b) and b.equivalent(a).
EquivalentCall ==
  /\ pc = "operands"
  /\ res' = <<equivalent(args[1], args[2]), equivalent(args[2], args[1])>>
  /\ pc' = "a.equivalent(b)"
  /\ steps' = steps + 1
  /\ UNCHANGED <<e, args>>

\* a.equivalent(a).
EquivalentSelf ==
  /\ pc = "operands"
  /\ res' = <<equivalent(args[1], args[1])>>
  /\ pc' = "a.equivalent(a)"
  /\ steps' = steps + 1
  /\ UNCHANGED <<e, args>>

NextEquivalent == EquivalentCall \/ EquivalentSelf

SpecEquivalent == EquivalentInit /\ [][NextEquivalent]_vars

\* ------------------------------------------------------------------------
\* Expression::equivalent on two Products of up to max_number_of_variables
\* variables, each made an Expression of one term.
\* ------------------------------------------------------------------------

EnumerateInit ==
  /\ pc = "products"
  /\ e = ExpressionLiteral(FALSE)
  /\ steps = 0
  /\ args \in Products(max_number_of_variables)
               \X Products(max_number_of_variables)
  /\ res = <<>>

\* Expression(p).equivalent(Expression(q)).
EnumerateCall ==
  /\ pc = "products"
  /\ res' = <<equivalent(ExpressionProduct(args[1]),
                         ExpressionProduct(args[2]))>>
  /\ pc' = "equivalent"
  /\ steps' = steps + 1
  /\ UNCHANGED <<e, args>>

NextEnumerate == EnumerateCall

SpecEnumerate == EnumerateInit /\ [][NextEnumerate]_vars

\* ------------------------------------------------------------------------
\* TruthProduct: a Product used as a counter over its variables.
\* ------------------------------------------------------------------------

\* TruthProduct(int number_of_booleans).
TruthProductOf(number_of_booleans) ==
  LET m == (full_mask * 2^number_of_booleans) % 2^mask_size
  IN MkProduct(m, m)

\* TruthProduct::operator++ that does not clear the negation it carries
\* over: the fault that C19 has to tell from the code.
RECURSIVE IncrementLoopWithoutCarry(_, _)
IncrementLoopWithoutCarry(truth_product, i) ==
  IF i = max_number_of_variables THEN truth_product
  ELSE LET bit == to_mask(i)
       IN IF And(truth_product.m_variables, bit) = 0
             /\ And(truth_product.m_negation, bit) = 0
          THEN MkProduct(truth_product.m_variables,
                         Or(truth_product.m_negation, bit))
          ELSE IncrementLoopWithoutCarry(truth_product, i + 1)

\* TruthProduct::operator++, from variable i on.
RECURSIVE IncrementLoop(_, _)
IncrementLoop(truth_product, i) ==
  IF i = max_number_of_variables THEN truth_product
  ELSE LET bit == to_mask(i)
       IN IF And(truth_product.m_variables, bit) = 0
          THEN IF And(truth_product.m_negation, bit) = 0
               THEN MkProduct(truth_product.m_variables,
                              Or(truth_product.m_negation, bit))
               ELSE IncrementLoop(
                      MkProduct(truth_product.m_variables,
                                And(truth_product.m_negation, Not(bit))),
                      i + 1)
          ELSE IncrementLoop(truth_product, i + 1)

\* The TruthProducts to count from: TruthProduct(n), and TruthProduct(p) of
\* a Product p that is not a literal.
CounterStarts ==
  {TruthProductOf(n) : n \in 1..max_number_of_variables}
    \cup Products(NumVariables)

\* e holds the TruthProduct, args where it started, res what it has been.
CounterInit ==
  /\ pc = "TruthProduct"
  /\ args \in {<<start>> : start \in CounterStarts}
  /\ e = args
  /\ steps = 0
  /\ res = args

\* ++truth_product, up to one full round.
CounterIncrement ==
  /\ steps < 2^number_of_variables(args[1])
  /\ pc \in {"TruthProduct", "++"}
  /\ e' = <<IncrementLoop(e[1], 0)>>
  /\ res' = Append(res, e'[1])
  /\ steps' = steps + 1
  /\ pc' = "++"
  /\ UNCHANGED args

NextCounter == CounterIncrement

SpecCounter == CounterInit /\ [][NextCounter]_vars

\* ------------------------------------------------------------------------
\* Two Products, literals included, and one operation of Product applied
\* to them.
\* ------------------------------------------------------------------------

AllProducts == Products(NumVariables) \cup {One, Zero}

ProductInit ==
  /\ pc = "products"
  /\ e = ExpressionLiteral(FALSE)
  /\ steps = 0
  /\ args \in AllProducts \X AllProducts
  /\ res = <<>>

\* Product operator*(Product const&, Product const&).
ProductMultiply ==
  /\ pc = "products"
  /\ res' = <<ProductTimes(args[1], args[2])>>
  /\ pc' = "p * q"
  /\ steps' = steps + 1
  /\ UNCHANGED <<e, args>>

\* Product(bool literal) and Product(Variable variable, bool negated).
ProductConstruct ==
  /\ pc = "products"
  /\ \/ \E literal \in BOOLEAN :
           /\ res' = <<ProductLiteral(literal)>>
           /\ pc' = "Product(literal)"
     \/ \E id \in 0..(max_number_of_variables - 1), negated \in BOOLEAN :
           /\ res' = <<ProductVariable(id, negated)>>
           /\ pc' = "Product(variable)"
  /\ steps' = steps + 1
  /\ UNCHANGED <<e, args>>

\* Product::common_factor, called as simplify calls it: on two terms that
\* differ in the negation of one variable.
ProductCommonFactor ==
  /\ pc = "products"
  /\ ~is_literal(args[1]) /\ ~is_literal(args[2])
  /\ is_single_negation_different_from(args[1], args[2])
  /\ res' = <<common_factor(args[1], args[2])>>
  /\ pc' = "common_factor"
  /\ steps' = steps + 1
  /\ UNCHANGED <<e, args>>

\* Product::remove_variable, called as simplify calls it: on a term and a
\* single variable that the term has with the other negation, after the
\* test for a single negation difference has failed.
ProductRemoveVariable ==
  /\ pc = "products"
  /\ ~is_literal(args[1]) /\ ~is_literal(args[2])
  /\ ~is_single_negation_different_from(args[1], args[2])
  /\ has_different_negation_for_single_variable(args[1], args[2])
  /\ res' = <<remove_variable(args[1], args[2])>>
  /\ pc' = "remove_variable"
  /\ steps' = steps + 1
  /\ UNCHANGED <<e, args>>

\* Expression::operator(): the reduction of one term that does not conflict
\* with the TruthProduct.
ProductReduce ==
  /\ pc = "products"
  /\ ~is_literal(args[1])
  /\ args[2] \in TruthProducts
  /\ ~SubstituteConflict(args[1], args[2])
  /\ res' = <<ReducedTerm(args[1], args[2])>>
  /\ pc' = "reduce"
  /\ steps' = steps + 1
  /\ UNCHANGED <<e, args>>

\* Expression operator+ of two single Products.
ProductSum ==
  /\ pc = "products"
  /\ ~is_literal(args[1]) /\ ~is_literal(args[2])
  /\ e' = Plus(ExpressionProduct(args[1]), ExpressionProduct(args[2]))
  /\ pc' = "p + q"
  /\ steps' = steps + 1
  /\ UNCHANGED <<args, res>>

\* Product::operator! of a Product that is not a literal.
ProductNot ==
  /\ pc = "products"
  /\ ~is_literal(args[1])
  /\ e' = inverse_product(args[1])
  /\ pc' = "!p"
  /\ steps' = steps + 1
  /\ UNCHANGED <<args, res>>

\* Product::operator! of a literal.  Expression::inverse(Product) begins
\* with ASSERT(!product.is_literal()): a build that keeps assertions stops
\* there, a build that drops them runs the loop on the masks of the literal.
ProductNotLiteral ==
  /\ pc = "products"
  /\ is_literal(args[1])
  /\ \/ /\ pc' = "ASSERT(!product.is_literal())"
        /\ e' = e
     \/ /\ pc' = "!literal"
        /\ e' = inverse_product(args[1])
  /\ steps' = steps + 1
  /\ UNCHANGED <<args, res>>

NextProduct ==
  \/ ProductNot
  \/ ProductNotLiteral
  \/ ProductMultiply
  \/ ProductConstruct
  \/ ProductCommonFactor
  \/ ProductRemoveVariable
  \/ ProductReduce
  \/ ProductSum

SpecProduct == ProductInit /\ [][NextProduct]_vars

\* ------------------------------------------------------------------------
\* The truth value of a sum of products under a total assignment: the
\* vocabulary of the properties below.
\* ------------------------------------------------------------------------

Assignments == [0..(max_number_of_variables - 1) -> BOOLEAN]

SlotPresent(p, id) == BitAt(p.m_variables, id) = 0

SlotNegated(p, id) == BitAt(p.m_negation, id) = 1

\* The conjunction p is true: it is not Zero and every present slot has the
\* polarity the assignment gives its variable.
TermValue(p, asg) ==
  /\ ~is_zero(p)
  /\ \A id \in DOMAIN asg : SlotPresent(p, id) => asg[id] = ~SlotNegated(p, id)

\* The disjunction of the terms of s is true.
Value(s, asg) == \E k \in 1..Len(s) : TermValue(s[k], asg)

SameValue(s, t) == \A asg \in Assignments : Value(s, asg) = Value(t, asg)

\* Expression::sanity_check without the per-term Product::is_sane.
SaneExpression(s) ==
  /\ s # <<>>
  /\ ~is_literal(s[1]) \/ Len(s) = 1
  /\ \A k \in 1..Len(s) :
       /\ k = 1 \/ ~is_literal(s[k])
       /\ k < Len(s) => /\ s[k + 1] # s[k]
                        /\ less(s[k + 1], s[k])
                        /\ ~less(s[k], s[k + 1])

\* ------------------------------------------------------------------------
\* Properties.
\* ------------------------------------------------------------------------

\* C1: after any sequence of public operations the term sequence of the
\* result is non-empty, strictly ordered by the term order (no two adjacent
\* terms equal) and holds a literal only as its sole element.
C1_TermOrder == SaneExpression(e)

\* C2: simplify() preserves the logical value: the terms before the call
\* and the terms after it have the same truth value under every assignment.
C2_SimplifyPreservesValue ==
  pc = "simplify" => SameValue(args[1], e)

\* C2 witness: a call of simplify() that rewrote a sequence of several
\* terms into a shorter sequence of several terms.
C2_Witness ==
  /\ pc = "simplify"
  /\ steps = 1
  /\ Len(args[1]) = MaxTerms
  /\ Len(e) > 1
  /\ Len(e) < Len(args[1])
  /\ \E k \in 1..Len(e) : \A j \in 1..Len(args[1]) : e[k] # args[1][j]

\* C3: simplify() is idempotent: the second of two calls in a row changes
\* nothing.
C3_SimplifyIdempotent ==
  (pc = "simplify" /\ steps = 2) => e = args[1]

\* C4 as stated: the Expression is the same whatever the order in which
\* the same Products are accumulated, a + b is b + a, and (a + b) + c is
\* a + (b + c), all structurally (operator==).
C4_CanonicalInAnyOrder ==
  pc \in {"a + b", "(a + b) + c", "+="} => res[1] = e

\* C4 amended: a + b and b + a are structurally the same Expression; the
\* two groupings of a sum and the accumulations of the same Products in
\* two orders have the same truth value under every assignment.
C4_CommutesAndSameValue ==
  /\ pc = "a + b" => res[1] = e
  /\ pc \in {"(a + b) + c", "+="} => SameValue(res[1], e)

\* C4 witness: three Products whose accumulation in another order is a
\* different sequence of two terms.
C4_Witness ==
  /\ pc = "+="
  /\ res[1] # e
  /\ Len(e) = 2
  /\ Len(res[1]) = 2

\* C5 as stated: a + a.inverse() is structurally One for every operand a.
C5_PlusInverseIsOne ==
  pc = "a + !a" => e = ExpressionLiteral(TRUE)

\* C5 amended: a + a.inverse() is true under every assignment, and it is
\* structurally One when a is a single Product (or a literal).
C5_PlusInverseIsTrue ==
  pc = "a + !a" =>
    /\ \A asg \in Assignments : Value(e, asg)
    /\ Len(args[1]) = 1 => e = ExpressionLiteral(TRUE)

\* C5 witness: a Product of NumVariables variables, whose inverse has as
\* many terms, added to its inverse.
C5_Witness ==
  /\ pc = "a + !a"
  /\ Len(args[1]) = 1
  /\ number_of_variables(args[1][1]) = NumVariables
  /\ Len(res[1]) = NumVariables
  /\ e = ExpressionLiteral(TRUE)

\* C6: a.times(a.inverse()) is structurally Zero, and every product of a
\* term of a with a term of a.inverse() is Zero.
C6_TimesInverseIsZero ==
  pc = "a * !a" =>
    /\ e = ExpressionLiteral(FALSE)
    /\ \A k \in 1..Len(args[1]), j \in 1..Len(res[1]) :
         is_zero(ProductTimes(args[1][k], res[1][j]))

\* C6 witness: a sum of two terms multiplied with its inverse of more than
\* two terms.
C6_Witness ==
  /\ pc = "a * !a"
  /\ Len(args[1]) = 2
  /\ Len(res[1]) > 2
  /\ e = ExpressionLiteral(FALSE)

\* C7: with a literal on either side, every multiplication gives the other
\* operand for One and Zero for Zero, every addition gives the other
\* operand for Zero and One for One, structurally; operator+ decides it in
\* zip's literal table, zip returning false so that nothing is merged or
\* simplified.
C7_LiteralIdentities ==
  /\ pc \in {"Product * Product", "Expression * Product", "times"} =>
       e = IF args[2] THEN args[1] ELSE ExpressionLiteral(FALSE)
  /\ pc \in {"+", "+="} =>
       e = IF args[2] THEN ExpressionLiteral(TRUE) ELSE args[1]
  /\ pc = "+" => res[1] = FALSE

\* C7 witness: Zero + a for a sum a of two terms.
C7_Witness ==
  /\ pc = "+"
  /\ args[2] = FALSE
  /\ args[3] = "left"
  /\ Len(args[1]) = 2
  /\ e = args[1]

\* C8: a.inverse().inverse().equivalent(a) is true, a.inverse().inverse()
\* has the truth value of a, and a.inverse() has the opposite truth value,
\* under every assignment.
C8_DoubleInverse ==
  pc = "!!a" =>
    /\ res[2] = TRUE
    /\ SameValue(e, args[1])
    /\ \A asg \in Assignments : Value(res[1], asg) = ~Value(args[1], asg)

\* C8 witness: a sum of two terms whose inverse has more than two terms
\* and whose double inverse is a different sequence.
C8_Witness ==
  /\ pc = "!!a"
  /\ Len(args[1]) = 2
  /\ Len(res[1]) > 2
  /\ e # args[1]

\* C9: a.times(b + c) and a.times(b) + a.times(c) have the same truth value
\* under every assignment, which is that of a and (b or c), and equivalent
\* says so.
C9_Distributes ==
  pc = "a * (b + c)" =>
    /\ res[2] = TRUE
    /\ SameValue(e, res[1])
    /\ \A asg \in Assignments :
         Value(e, asg) = (Value(args[1], asg)
                            /\ (Value(args[2], asg) \/ Value(args[3], asg)))

\* C9 witness: a sum a of two terms and two different Products b and c,
\* where both sides have several terms.
C9_Witness ==
  /\ pc = "a * (b + c)"
  /\ Len(args[1]) = 2
  /\ ~expr_is_literal(args[2])
  /\ ~expr_is_literal(args[3])
  /\ args[2] # args[3]
  /\ Len(e) > 2
  /\ Len(res[1]) > 2

\* The variable id is present in term and in truth_product with different
\* negations; Zero conflicts with everything.
Conflicts(term, truth_product) ==
  \/ is_zero(term)
  \/ /\ ~is_literal(term)
     /\ \E id \in 0..(max_number_of_variables - 1) :
          /\ SlotPresent(term, id)
          /\ SlotPresent(truth_product, id)
          /\ SlotNegated(term, id) # SlotNegated(truth_product, id)

\* Every variable of term is given by truth_product, with the same
\* negation; One has none.
Resolved(term, truth_product) ==
  \/ is_one(term)
  \/ /\ ~is_literal(term)
     /\ \A id \in 0..(max_number_of_variables - 1) :
          SlotPresent(term, id) =>
            /\ SlotPresent(truth_product, id)
            /\ SlotNegated(term, id) = SlotNegated(truth_product, id)

\* (!A * B + A * !C)(B * !C), the example of TruthProduct.h.
UsageExample ==
  Substitute(PlusEqProduct(ExpressionProduct(ProductOf(<<N, A, X>>)),
                           ProductOf(<<A, X, N>>)),
             ProductOf(<<X, A, N>>))

\* C10: a(t) has the truth value of a under every assignment that makes t
\* true; no term of a(t) holds a variable of t; a(t) is One when some term
\* of a is resolved by t and Zero when every term of a conflicts with t;
\* and the usage example is One.
C10_Substitution ==
  /\ UsageExample = ExpressionLiteral(TRUE)
  /\ pc = "a(t)" =>
       /\ \A asg \in Assignments :
            TermValue(args[2], asg) => Value(e, asg) = Value(args[1], asg)
       /\ \A k \in 1..Len(e), id \in 0..(max_number_of_variables - 1) :
            (~is_literal(e[k]) /\ SlotPresent(args[2], id))
              => ~SlotPresent(e[k], id)
       /\ (\E k \in 1..Len(args[1]) : Resolved(args[1][k], args[2]))
            => e = ExpressionLiteral(TRUE)
       /\ (\A k \in 1..Len(args[1]) : Conflicts(args[1][k], args[2]))
            => e = ExpressionLiteral(FALSE)

\* C10 witness: a sum of two terms and a TruthProduct of one variable that
\* leaves a different sum of two terms.
C10_Witness ==
  /\ pc = "a(t)"
  /\ Len(args[1]) = 2
  /\ number_of_variables(args[2]) = 1
  /\ Len(e) = 2
  /\ e # args[1]

\* The reading of a Product as a map from variable ids to absent, positive
\* or negated; ZeroMap stands for the Product that is false.
SlotOf(p, id) ==
  IF ~SlotPresent(p, id) THEN X
  ELSE IF SlotNegated(p, id) THEN N ELSE A

ZeroMap == [id \in 0..(max_number_of_variables - 1) |-> "zero"]

SlotMap(p) ==
  IF is_zero(p) THEN ZeroMap
  ELSE [id \in 0..(max_number_of_variables - 1) |-> SlotOf(p, id)]

\* The reference combination of two such maps.
CombineSlots(m1, m2) ==
  IF m1 = ZeroMap \/ m2 = ZeroMap THEN ZeroMap
  ELSE IF \E id \in DOMAIN m1 : m1[id] # X /\ m2[id] # X /\ m1[id] # m2[id]
       THEN ZeroMap
       ELSE [id \in DOMAIN m1 |-> IF m1[id] # X THEN m1[id] ELSE m2[id]]

\* The encoding of a map: a set bit of m_variables for an absent slot and
\* for the reserved slot, a set bit of m_negation for an absent, a negated
\* and the reserved slot; no present slot at all is One.
RECURSIVE SumOver(_, _)
SumOver(f, ids) ==
  IF ids = {} THEN 0
  ELSE LET id == CHOOSE x \in ids : TRUE
       IN f[id] + SumOver(f, ids \ {id})

EncodeSlots(m) ==
  IF m = ZeroMap THEN MkProduct(empty_mask, full_mask)
  ELSE IF \A id \in DOMAIN m : m[id] = X THEN MkProduct(full_mask, empty_mask)
  ELSE LET reserved == 2^(mask_size - 1)
           v == [id \in DOMAIN m |-> IF m[id] = X THEN 2^id ELSE 0]
           n == [id \in DOMAIN m |-> IF m[id] = A THEN 0 ELSE 2^id]
       IN MkProduct(reserved + SumOver(v, DOMAIN m),
                    reserved + SumOver(n, DOMAIN m))

ValidProduct(p) ==
  \/ p = MkProduct(full_mask, empty_mask)
  \/ p = MkProduct(empty_mask, full_mask)
  \/ /\ ~is_literal(p)
     /\ \E id \in 0..(max_number_of_variables - 1) : SlotPresent(p, id)
     /\ And(p.m_negation, p.m_variables) = p.m_variables
     /\ BitAt(p.m_variables, mask_size - 1) = 1

ProductResults ==
  {"Product(literal)", "Product(variable)", "p * q", "common_factor",
   "remove_variable"}

\* C12: every Product made by a constructor, by a multiplication, by
\* common_factor or remove_variable as simplify calls them or by the
\* reduction of a term in operator(), and every term of a resulting
\* Expression, is One, Zero or a non-literal with a present slot, its
\* negation bit set in every absent slot and the reserved slot absent.
C12_EncodingInvariant ==
  /\ pc \in ProductResults \cup {"reduce"} => ValidProduct(res[1])
  /\ pc = "p + q" => \A k \in 1..Len(e) : ValidProduct(e[k])

\* C12 as the code has it: the reduction of a term all of whose variables
\* are in the TruthProduct is {full_mask, full_mask}, which is not a valid
\* Product (operator() drops it and returns the literal One); every other
\* result is valid, and is_sane accepts it.
C12_EncodingInvariantButResolved ==
  /\ pc \in ProductResults => ValidProduct(res[1]) /\ is_sane(res[1])
  /\ pc = "p + q" =>
       \A k \in 1..Len(e) : ValidProduct(e[k]) /\ is_sane(e[k])
  /\ pc = "reduce" =>
       IF \A id \in 0..(max_number_of_variables - 1) :
            SlotPresent(args[1], id) => SlotPresent(args[2], id)
       THEN res[1] = MkProduct(full_mask, full_mask)
       ELSE ValidProduct(res[1]) /\ is_sane(res[1])

\* A term with two variables has been reduced by a TruthProduct that has
\* one of them, and a term has lost its last variable.
C12_Witness ==
  /\ pc = "reduce"
  /\ number_of_variables(args[1]) = 2
  /\ number_of_variables(args[2]) = 1
  /\ number_of_variables(res[1]) = 1

\* C13: the negation of a non-literal Product with k present slots has
\* exactly k terms, one for each present slot, each the single variable of
\* that slot with the opposite polarity, and the terms are in term order;
\* !((!A) * B) is A + !B.
C13_ProductNegation ==
  pc = "!p" =>
    /\ Len(e) = number_of_variables(args[1])
    /\ \A k \in 1..Len(e) : number_of_variables(e[k]) = 1
    /\ \A id \in 0..(max_number_of_variables - 1) :
         SlotPresent(args[1], id) =>
           Cardinality({k \in 1..Len(e) :
             e[k] = ProductVariable(id, ~SlotNegated(args[1], id))}) = 1
    /\ \A k \in 1..(Len(e) - 1) : less(e[k + 1], e[k])
    /\ args[1] = ProductTimes(ProductVariable(0, TRUE),
                              ProductVariable(1, FALSE))
         => e = <<ProductVariable(0, FALSE), ProductVariable(1, TRUE)>>

\* A Product with a positive and a negated variable, and a third variable
\* absent between them, has been negated.
C13_Witness ==
  /\ pc = "!p"
  /\ SlotOf(args[1], 0) = N
  /\ SlotOf(args[1], 1) = X
  /\ SlotOf(args[1], 2) = A
  /\ Len(e) = 2

\* C14: the negation of a literal Product is the other literal: One gives
\* the Expression Zero and Zero gives the Expression One.
C14_LiteralNegation ==
  /\ pc = "ASSERT(!product.is_literal())" => FALSE
  /\ pc = "!literal" => e = ExpressionLiteral(is_zero(args[1]))

\* C14 as the code has it: a literal is outside the domain of
\* Product::operator!.  The call either stops at the assertion or, with
\* assertions dropped, returns an Expression without terms for One and the
\* sum of every variable, not negated, for Zero.
C14_LiteralNegationRejected ==
  /\ pc = "ASSERT(!product.is_literal())" => e = ExpressionLiteral(FALSE)
  /\ pc = "!literal" /\ is_one(args[1]) => e = <<>>
  /\ pc = "!literal" /\ is_zero(args[1]) =>
       e = [k \in 1..max_number_of_variables |->
              ProductVariable(k - 1, FALSE)]

\* Zero has been negated in a build without assertions.
C14_Witness ==
  /\ pc = "!literal"
  /\ is_zero(args[1])
  /\ Len(e) = max_number_of_variables

\* C15: e.equivalent(f) is TRUE exactly when e and f have the same value
\* under every assignment of the variables, a term being true when no
\* present slot of it conflicts with the assignment and a literal having
\* its constant value; so e.equivalent(e) is TRUE and e.equivalent(f) is
\* f.equivalent(e).
C15_EquivalentDecides ==
  /\ pc = "a.equivalent(b)" =>
       /\ res[1] = SameValue(args[1], args[2])
       /\ res[1] = res[2]
  /\ pc = "a.equivalent(a)" => res[1]

\* Two Expressions that are not literals and differ in their terms have
\* been found equivalent.
C15_Witness ==
  /\ pc = "a.equivalent(b)"
  /\ ~expr_is_literal(args[1]) /\ ~expr_is_literal(args[2])
  /\ args[1] # args[2]
  /\ res[1]

C17_SingleNegationCollapse ==
  pc = "p + q" =>
    \A x \in AllProducts \ {Zero} :
      \A id \in 0..(NumVariables - 1), negated \in BOOLEAN :
        /\ ~SlotPresent(x, id)
        /\ args[1] = ProductTimes(x, ProductVariable(id, negated))
        /\ args[2] = ProductTimes(x, ProductVariable(id, ~negated))
        => e = <<x>>

\* A * !B * C + A * B * C has become A * C.
C17_Witness ==
  /\ pc = "p + q"
  /\ SlotMap(args[1]) = [id \in 0..(max_number_of_variables - 1) |->
                           IF id = 1 THEN N ELSE IF id < 3 THEN A ELSE X]
  /\ SlotMap(args[2]) = [id \in 0..(max_number_of_variables - 1) |->
                           IF id < 3 THEN A ELSE X]
  /\ e = <<ProductTimes(ProductVariable(0, FALSE),
                        ProductVariable(2, FALSE))>>

\* C18: for P and Q that are not literals, every slot of Q being present in
\* P with the same polarity (P = Q included), Expression(P) + Expression(Q)
\* is the single term Q.
C18_Absorption ==
  pc = "p + q" =>
    ((\A id \in 0..(max_number_of_variables - 1) :
        SlotPresent(args[2], id) => SlotOf(args[1], id) = SlotOf(args[2], id))
      => e = <<args[2]>>)

\* !A * B * C + !A * C has become !A * C.
C18_Witness ==
  /\ pc = "p + q"
  /\ SlotOf(args[1], 0) = N /\ SlotOf(args[1], 1) = A
  /\ SlotOf(args[1], 2) = A
  /\ SlotOf(args[2], 0) = N /\ SlotOf(args[2], 1) = X
  /\ SlotOf(args[2], 2) = A
  /\ e = <<args[2]>>

\* C19: operator++ counts through the polarities of the present slots and
\* wraps: from a TruthProduct with k >= 1 present slots the values after
\* 0 .. 2^k - 1 increments are pairwise distinct assignments of those
\* slots, the 2^k-th increment gives the starting value again, and
\* m_variables never changes.
C19_WrappingCounter ==
  pc \in {"TruthProduct", "++"} =>
    LET k == number_of_variables(args[1])
    IN /\ e[1].m_variables = args[1].m_variables
       /\ And(e[1].m_negation, e[1].m_variables) = e[1].m_variables
       /\ Len(res) = steps + 1
       /\ \A m, n \in 1..Len(res) :
            m < n /\ n <= 2^k => res[m] # res[n]
       /\ steps = 2^k => e[1] = args[1]

\* A TruthProduct with NumVariables variables, some of them negated at the
\* start, has gone round once.
C19_Witness ==
  /\ pc = "++"
  /\ number_of_variables(args[1]) = NumVariables
  /\ SlotOf(args[1], 0) = N /\ SlotOf(args[1], 1) = A
  /\ steps = 2^NumVariables
  /\ e = args

\* The terms that are not removed, each counted with one more than the
\* number of its variables, and the term insert_after is about to insert.
RECURSIVE LiveWeight(_, _)
LiveWeight(s, k) ==
  IF k > Len(s) THEN 0
  ELSE (IF s[k].m_variables = 0 THEN 0 ELSE number_of_variables(s[k]) + 1)
       + LiveWeight(s, k + 1)

Weight(s, locals, at) ==
  LiveWeight(s, 1)
    + IF at = "insert_after" THEN number_of_variables(locals.term) + 1 ELSE 0

\* What is left of the loop over i.
Remaining(locals) == locals.size - locals.i

\* A step of the pass ends it or lowers, in this order, the weight of the
\* terms, what is left of the loop over i, or the pending call.
StepLowersMeasure ==
  pc \in {"scan", "insert_after"} =>
    \/ pc' = "done"
    \/ Weight(e', res'[1], pc') < Weight(e, res[1], pc)
    \/ /\ Weight(e', res'[1], pc') = Weight(e, res[1], pc)
       /\ Remaining(res'[1]) < Remaining(res[1])
    \/ /\ Weight(e', res'[1], pc') = Weight(e, res[1], pc)
       /\ Remaining(res'[1]) = Remaining(res[1])
       /\ pc = "insert_after"
       /\ pc' = "scan"

\* The measure is made of natural numbers and the pass is not stuck.
PassGoesOn ==
  pc \in {"scan", "insert_after"} =>
    /\ Remaining(res[1]) >= 0
    /\ res[1].size = Len(e)
    /\ ENABLED NextSimplifySteps

\* The pass has ended with what simplify returns, no removed term in it.
PassEnded ==
  pc = "done" =>
    /\ e = simplify(args[1])
    /\ \A k \in 1..Len(e) : e[k].m_variables # 0

\* C20: simplify terminates on every term-ordered sequence of Products that
\* are not literals.  Each pass of its loop over i and each call of
\* insert_after, the nested ones included, lowers a measure of natural
\* numbers or ends the pass, and no state before the end is stuck: the
\* pass cannot go on for ever.  It ends with the removed terms compacted
\* out.
C20_SimplifyTerminates ==
  /\ [][StepLowersMeasure]_vars
  /\ []PassGoesOn
  /\ []PassEnded

\* A pass has ended after two insertions and with fewer terms than it
\* began with.
C20_Witness ==
  /\ pc = "done"
  /\ res[1].size = Len(args[1]) + 2
  /\ Len(e) < Len(args[1])
  /\ ~expr_is_literal(e)

\* The term that the pending call of insert_after inserts meets, by rule 2
\* or rule 3, the live term at index idx of s.
RetestApplies(s, idx, term) ==
  /\ ~Removed(s, idx)
  /\ \/ has_different_negation_for_single_variable(At(s, idx), term)
     \/ includes_all_of(At(s, idx), term)

\* A call of insert_after leaves no live term untested: once it has run, no
\* live term before the inserted one, at an index the loop over i has
\* passed, still meets the inserted term by rule 2 or rule 3.
InsertedTermRetested ==
  pc = "insert_after" =>
    LET L == res[1]
        k == InsertPoint(e, L.term, L.after, L.size)
    IN \A idx \in 0..(L.i - 1) :
         idx < k => ~RetestApplies(e', idx, L.term)

\* C21: in simplify a freshly inserted term, whether rule 1, rule 2 or a
\* nested call of insert_after inserts it, is tested with rules 2 and 3
\* against every live term at an earlier index that the loop over i has
\* passed, before that loop goes on: none that the term absorbs, or that
\* has the variable of the term with the other negation, is left untested.
C21_InsertedTermRetested == [][InsertedTermRetested]_vars

\* C22: zip is an ordered merge and nothing else.  For two Expressions that
\* are not literals it returns true and the output has every term of both
\* inputs, as many times as the two inputs have it together, in
\* non-increasing term order; zip of A + B and A + C is A, A, B, C, which
\* simplify turns into A + B + C.  When an input is a literal it returns
\* false and the output is the sum by the table of literals: One if an
\* input is One, else the input that is not Zero, else Zero.
C22_ZipIsMerge ==
  LET Occurrences(s, term) == Cardinality({k \in 1..Len(s) : s[k] = term})
      SumOfVariables(id1, id2) ==
        PlusEqProduct(ExpressionProduct(ProductVariable(id1, FALSE)),
                      ProductVariable(id2, FALSE))
  IN
  /\ pc = "zip" =>
       IF expr_is_literal(args[1]) \/ expr_is_literal(args[2])
       THEN /\ ~res[1]
            /\ e = IF expr_is_one(args[1]) \/ expr_is_one(args[2])
                   THEN ExpressionLiteral(TRUE)
                   ELSE IF expr_is_zero(args[1]) THEN args[2] ELSE args[1]
       ELSE /\ res[1]
            /\ Len(e) = Len(args[1]) + Len(args[2])
            /\ \A term \in Products(NumVariables) :
                 Occurrences(e, term)
                   = Occurrences(args[1], term) + Occurrences(args[2], term)
            /\ \A k \in 1..(Len(e) - 1) : ~less(e[k], e[k + 1])
  /\ args = <<SumOfVariables(0, 1), SumOfVariables(0, 2)>> =>
       /\ pc = "zip" =>
            e = <<ProductVariable(0, FALSE), ProductVariable(0, FALSE),
                  ProductVariable(1, FALSE), ProductVariable(2, FALSE)>>
       /\ pc = "zip, simplify" =>
            e = <<ProductVariable(0, FALSE), ProductVariable(1, FALSE),
                  ProductVariable(2, FALSE)>>

\* A + B and A + C have been merged: A is in the output twice.
C22_Witness ==
  /\ pc = "zip"
  /\ args = <<PlusEqProduct(ExpressionProduct(ProductVariable(0, FALSE)),
                            ProductVariable(1, FALSE)),
              PlusEqProduct(ExpressionProduct(ProductVariable(0, FALSE)),
                            ProductVariable(2, FALSE))>>
  /\ res[1]
  /\ Len(e) = 4
  /\ e[1] = e[2]

\* C23: for every number k of distinct variables of the two expressions
\* that mask_type has room for, 1 << k in int is 2^k and 1 << variable is
\* 2^variable for every variable below k, and equivalent() reports what
\* comparing the two expressions under all 2^k assignments gives.
C23_EnumeratesAll ==
  pc = "equivalent" =>
    LET k == Cardinality({id \in 0..(max_number_of_variables - 1) :
                            \/ SlotPresent(args[1], id)
                            \/ SlotPresent(args[2], id)})
    IN /\ ShiftLeftInt(1, k) = 2^k
       /\ \A variable \in 0..(k - 1) : ShiftLeftInt(1, variable) = 2^variable
       /\ res[1] = SameValue(ExpressionProduct(args[1]),
                             ExpressionProduct(args[2]))

====
